---- MODULE Spec2Model ----
(***************************************************************************)
(* A model of CVisualizationMatrix (src/src/main.cpp): the audio analysis  *)
(* path (AudioData, WriteToBuffer, Mix, smoothing, byte encoding) and the  *)
(* render-context state machine (Start, Stop, Render, preset switches,     *)
(* Launch, LoadPreset, UnloadPreset, UnloadTextures, UpdateAlbumart,       *)
(* DetermineBitsPrecision).                                                *)
(*                                                                         *)
(* Three specifications share the variables:                               *)
(*   Spec       the render-context operations, each one atomic;            *)
(*   SpecAudio  AudioData as one atomic call, over all small chunks;       *)
(*   SpecConc   AudioData and Render interleaved at the granularity of     *)
(*              single m_audioData byte writes (the code takes no lock).   *)
(*                                                                         *)
(* Arrays are functions over 0..n-1, as in the source.                     *)
(***************************************************************************)
EXTENDS Integers, Sequences, FiniteSets, TLC

----------------------------------------------------------------------------
(* Sizes.  AUDIO_BUFFER is 1024 in the source; the model scales it down.   *)
(* For AUDIO_BUFFER in {2, 3} there is one band, the DC bin, whose value   *)
(* is a rational number, so the spectrum path is computed exactly.         *)

AUDIO_BUFFER == 2

NUM_BANDS == AUDIO_BUFFER \div 2

UCHAR_MAX == 255

\* The integer that stands for the float 1.0f in m_pcm and in the input:
\* samples are thirds, so that (sample + 1.0f) * 128.0f has a fraction.
PcmOne == 3

\* AudioData calls per behaviour (keeps the smoothing history exact).
MaxCalls == 3

\* The floats a chunk may hold: -1.0f and 1.0f.
Samples == {-PcmOne, PcmOne}

\* iAudioDataLength: 0 .. one frame more than the ring holds, and one odd
\* length (a trailing float without its partner).
ChunkLens == {2 * f : f \in 0..(AUDIO_BUFFER + 1)} \cup {3}

Chunks == UNION {[0..(l - 1) -> Samples] : l \in ChunkLens}

\* Every level a sample can have, and the chunks used to study the byte
\* encoding: one frame with both channels at one level, and silence of
\* every length.
Levels == (-PcmOne)..PcmOne

LevelChunks ==
  {[i \in 0..1 |-> l] : l \in Levels} \cup {[i \in 0..(l - 1) |-> 0] : l \in ChunkLens}

Abs(x) == IF x < 0 THEN -x ELSE x

RECURSIVE Pow2(_)
Pow2(n) == IF n = 0 THEN 1 ELSE 2 * Pow2(n - 1)

\* C's integer division and conversion (int)x: toward zero.
TruncDiv(a, b) == IF a >= 0 THEN a \div b ELSE -((-a) \div b)

Max(a, b) == IF a >= b THEN a ELSE b

Min(a, b) == IF a <= b THEN a ELSE b

----------------------------------------------------------------------------
(* Mix and WriteToBuffer.                                                  *)

\* The inner loop of Mix: v = sum of source[i + j], j < channels.
RECURSIVE ChannelSum(_, _, _)
ChannelSum(source, i, channels) ==
  IF channels = 0 THEN 0
  ELSE ChannelSum(source, i, channels - 1) + source[i + channels - 1]

\* Mix(destination + dOff, source + sOff, frames, channels): for i = 0,
\* channels, 2*channels, ... < frames*channels it stores v / channels at
\* destination[i / 2].  The only caller passes channels = 2, where i / 2 is
\* the frame index; the sums of the model's samples divide exactly.
Mix(destination, dOff, source, sOff, frames, channels) ==
  [d \in DOMAIN destination |->
     IF d >= dOff /\ d < dOff + frames
       THEN ChannelSum(source, sOff + (d - dOff) * channels, channels)
              \div channels
       ELSE destination[d]]

\* A plausible slip: the new frames are stored at the head, not the tail.
WriteToBufferHead(pcm, input, length, channels) ==
  LET frames == length \div channels
  IN  IF frames >= AUDIO_BUFFER
        THEN Mix(pcm, 0, input, frames - AUDIO_BUFFER, AUDIO_BUFFER, channels)
        ELSE Mix(pcm, 0, input, 0, frames, channels)

\* WriteToBuffer.  In the long branch the source pointer is input + offset
\* with offset counted in frames, so Mix starts offset floats (not offset
\* frames) into the input.
WriteToBuffer(pcm, input, length, channels) ==
  LET frames == length \div channels
  IN  IF frames >= AUDIO_BUFFER
        THEN LET offset == frames - AUDIO_BUFFER
             IN  Mix(pcm, 0, input, offset, AUDIO_BUFFER, channels)
        ELSE LET keep == AUDIO_BUFFER - frames
                 moved == [i \in DOMAIN pcm |->
                             IF i < keep THEN pcm[i + frames] ELSE pcm[i]]
             IN  Mix(moved, keep, input, 0, frames, channels)

----------------------------------------------------------------------------
(* The spectrum path of AudioData, in exact rational arithmetic.           *)

\* 2*cos(2*pi*k/n) for the ring sizes whose cosines are rational.
TwiceCos(k, n) ==
  CASE n = 1 -> 2
    [] n = 2 -> IF k % 2 = 0 THEN 2 ELSE -2
    [] n = 3 -> IF k % 3 = 0 THEN 2 ELSE -1
    [] n = 4 -> IF k % 4 = 0 THEN 2 ELSE IF k % 4 = 2 THEN -2 ELSE 0
    [] n = 6 -> IF k % 6 = 0 THEN 2 ELSE IF k % 6 = 3 THEN -2
                ELSE IF k % 6 \in {1, 5} THEN 1 ELSE -1

\* BlackmanWindow(in, i, length), in hundredths of in:
\* 100 * (a0 - a1 cos(2 pi x) + a2 cos(4 pi x)), a0 = 0.42, a1 = 0.5, a2 = 0.08.
BlackmanWindow(in, i, length) ==
  in * (42 - 25 * TwiceCos(i, length) + 4 * TwiceCos(2 * i, length))

\* Bin 0 of kiss_fft over the windowed ring: the sum of the real inputs
\* (out[0].i is set to 0 by AudioData).  Unit: 1 / (100 * PcmOne).
RECURSIVE WindowedSum(_, _)
WindowedSum(pcm, n) ==
  IF n = 0 THEN 0
  ELSE WindowedSum(pcm, n - 1) + BlackmanWindow(pcm[n - 1], n - 1, AUDIO_BUFFER)

\* m_magnitudeBuffer holds value * MagDen.
MagDen == PcmOne * 100 * AUDIO_BUFFER * Pow2(MaxCalls)

\* sqrt(c.r * c.r + c.i * c.i) / fftSize for the DC bin (c.i = 0), times MagDen.
Magnitude(pcm) == Abs(WindowedSum(pcm, AUDIO_BUFFER)) * Pow2(MaxCalls)

\* A plausible slip: the previous output is not blended in.
SmoothingNoHistory(lastOutputBuffer, magnitude) ==
  [i \in DOMAIN lastOutputBuffer |-> magnitude]

\* SmoothingOverTime with smoothingTimeConstant = 0.5:
\* out[i] = 0.5 * last[i] + 0.5 * magnitude.  Exact for MaxCalls calls.
SmoothingOverTime(lastOutputBuffer, magnitude) ==
  [i \in DOMAIN lastOutputBuffer |-> (lastOutputBuffer[i] + magnitude) \div 2]

\* Bytes the dB scaling can give strictly between the -100 dB floor and the
\* -30 dB ceiling; log10f is not computed, any of these is admitted.
MidBytes == {0, 1, 127, 254}

\* A plausible slip: no zero test and no lower clamp, so that the -1000 dB
\* LinearToDecibels gives for zero scales to -3278 and is stored as the
\* byte -3278 mod 256.
SpectrumByteNoFloor(linear, mid) ==
  IF linear = 0 THEN (-3278) % 256
  ELSE IF linear * 100000 >= 3163 * MagDen THEN UCHAR_MAX
  ELSE mid

\* m_audioData[i] for the smoothed value linear (times MagDen):
\* zero -> MIN_DECIBELS -> 0; 20 log10(linear) >= -30 dB, that is
\* linear >= 10^-1.5, -> UCHAR_MAX; otherwise the choice mid.
SpectrumByte(linear, mid) ==
  IF linear = 0 THEN 0
  ELSE IF linear * 100000 >= 3163 * MagDen THEN UCHAR_MAX
  ELSE mid

\* A plausible slip: v is rounded to the nearest integer (halves up), not
\* truncated.
WaveByteRounded(sample) ==
  Max(Min((2 * (sample + PcmOne) * 128 + PcmOne) \div (2 * PcmOne), UCHAR_MAX), 0)

\* m_audioData[i + NUM_BANDS]: v = (m_pcm[i] + 1.0f) * 128.0f, converted
\* with (int) and clamped to 0..UCHAR_MAX.
WaveByte(sample) ==
  Max(Min(TruncDiv((sample + PcmOne) * 128, PcmOne), UCHAR_MAX), 0)

\* The byte AudioData's two loops store at index i of m_audioData.
AudioByte(pcm, mag, i, mid) ==
  IF i < NUM_BANDS THEN SpectrumByte(mag[i], mid) ELSE WaveByte(pcm[i - NUM_BANDS])

\* The bytes to choose mid from: one stand-in when no band is in mid-range.
MidChoices(mag) ==
  IF \E i \in DOMAIN mag : mag[i] # 0 /\ mag[i] * 100000 < 3163 * MagDen
    THEN MidBytes ELSE {0}

\* m_audioData after both loops: indices 0 .. 2 * NUM_BANDS - 1 are stored,
\* the rest of the array is left alone.
AudioBytes(old, pcm, mag, mid) ==
  [i \in DOMAIN old |->
     IF i < 2 * NUM_BANDS THEN AudioByte(pcm, mag, i, mid) ELSE old[i]]

----------------------------------------------------------------------------
(* The preset catalog and the host's answers.                              *)

\* g_presets: name, file, channel[4].
g_presets ==
  [i \in 0..1 |->
     IF i = 0
       THEN [name |-> "Kodi", file |-> "kodi.frag.glsl",
             channel |-> [c \in 0..3 |-> CASE c = 0 -> 99 [] c = 1 -> 0
                                            [] c = 2 -> 1 [] c = 3 -> -1]]
       ELSE [name |-> "Album", file |-> "album.frag.glsl",
             channel |-> [c \in 0..3 |-> CASE c = 0 -> 99 [] c = 1 -> 0
                                            [] c = 2 -> 1 [] c = 3 -> 2]]]

\* g_presets.size()
PresetCount == Cardinality(DOMAIN g_presets)

g_fileTextures ==
  [i \in 0..2 |-> CASE i = 0 -> "logo.png" [] i = 1 -> "noise.png"
                     [] i = 2 -> "album.png"]

FileTextureCount == Cardinality(DOMAIN g_fileTextures)

\* How LoadPreset(shaderPath) can end: both programs linked, or one of them
\* failed to load, compile or link (the effect program's failure and the
\* display program's return before the offscreen pair is created and leave
\* the same state).
LoadOutcomes == {"ok", "matrixFail"}

\* GL names (textures and vertex buffers) that may be live without a field
\* of the object holding them.
MaxLeaks == 1

\* What the probe's column count can return: no transition, or more than
\* the floor of 13.
ProbeBits == {0, 23}

\* Which of the file textures of slots 1..3 decode: all or none.
TexOutcomes == {[i \in 1..3 |-> i \in good] : good \in {{1, 2, 3}, {}}}

\* How the probe's LoadPreset can end (its two failures leave the same state).
ProbeOutcomes == {"ok", "matrixFail"}

\* Width() and Height() of the host surface.
Dims == {<<0, 0>>, <<640, 480>>}

\* A host on which everything succeeds.
GoodHost ==
  [probeLoad |-> "ok", bits |-> 23, texOk |-> [i \in 1..3 |-> TRUE],
   dim |-> <<640, 480>>, elapsed |-> 0, shift |-> "wrap"]

\* What stays the same during a session: the surface's size, whether the
\* bundled images decode, whether the probe's programs link and the count
\* the probe's read-back gives, what the clock reads at the effect pass
\* (elapsed, milliseconds since m_initialTime; in Hosts the clock stands at
\* 0) and what the build makes of an int shift by 32 or more (shift).  For
\* the count of a probe whose programs did not link,
\* which reads back a frame it did not draw, the least count).  A host
\* differs from GoodHost in at most one of the three respects (surface,
\* images, probe).
Hosts ==
  {h \in [probeLoad : ProbeOutcomes, bits : ProbeBits, texOk : TexOutcomes,
          dim : Dims, elapsed : {GoodHost.elapsed}, shift : {GoodHost.shift}] :
     /\ h.probeLoad # "ok" => h.bits = 0
     /\ Cardinality({k \in {"probe", "images", "surface"} :
            \/ k = "probe" /\ <<h.probeLoad, h.bits>>
                                # <<GoodHost.probeLoad, GoodHost.bits>>
            \/ k = "images" /\ h.texOk # GoodHost.texOk
            \/ k = "surface" /\ h.dim # GoodHost.dim}) <= 1}

\* What one Launch of a catalog index is answered: how loading the preset's
\* programs ends.
LaunchEnvs == [load : LoadOutcomes, ub : {"none"}]

\* The same when Launch reads g_presets past its end: the read may give
\* anything (here an entry without channels) or end the process.
LaunchEnvsFor(preset) ==
  IF preset >= PresetCount
    THEN [load : LoadOutcomes, ub : {"none", "crash"}]
    ELSE LaunchEnvs

\* The user's own shader set (settings shader, texture0..3, texture0..3-sound).
UserSettings ==
  { [audio |-> [i \in 0..3 |-> i \in a],
     texture |-> [i \in 0..3 |-> IF i \in t THEN "user.png" ELSE ""]] :
      a \in {{1, 3}}, t \in {{}, {1, 2, 3}} }

\* Values of the persisted setting lastpresetidx the constructor may read:
\* the catalog's indices, a negative one and one past the end.
PersistedIdx == -1..PresetCount

\* x converted to size_t and reduced modulo n, as in int % size_t: a
\* negative x becomes 2^64 + x.
RECURSIVE Pow2Mod(_, _)
Pow2Mod(k, n) == IF k = 0 THEN 1 % n ELSE (2 * Pow2Mod(k - 1, n)) % n

ModSizeT(x, n) ==
  IF x >= 0 THEN x % n ELSE (Pow2Mod(64, n) + (x % n)) % n

----------------------------------------------------------------------------
VARIABLES
  \* the analyzer (audio context)
  m_pcm,              \* float[AUDIO_BUFFER], oldest first
  m_magnitudeBuffer,  \* float[NUM_BANDS], times MagDen
  m_audioData,        \* GLubyte[AUDIO_BUFFER]; the first 2 * NUM_BANDS are written
  m_needsUpload,
  \* the object's render-side fields
  m_settingsUseOwnshader,
  m_currentPreset,
  m_initialized,
  m_channelTextures,  \* GLuint[4]
  m_shaderTextures,   \* [4] of {audio, texture}
  m_state,            \* fbwidth, fbheight, effect_fb, framebuffer_texture, vertex_buffer
  m_bitsPrecision,
  m_usedShaderFile,
  \* the collaborators
  gl,                 \* live texture, framebuffer and buffer names; the audio texture's bytes
  settings,           \* the host's settings store
  host,               \* the host's surface, files and GPU
  crashed,            \* an out-of-range read of g_presets ended the process
  \* the position of each context inside its call (SpecConc)
  audioPc,
  renderPc,
  \* history, for stating the properties
  calls,              \* AudioData calls so far
  input,              \* the chunk of the last AudioData call
  recent,             \* the last AUDIO_BUFFER frames of the down-mixed stream
  fed,                \* frames delivered so far, counted up to AUDIO_BUFFER
  done,               \* m_audioData as the last finished AudioData call left it
  obs                 \* what the last render-context operation did

audioVars == <<m_pcm, m_magnitudeBuffer, m_audioData, calls, input, recent, fed, done>>

renderVars ==
  <<m_settingsUseOwnshader, m_currentPreset, m_initialized, m_channelTextures,
    m_shaderTextures, m_state, m_bitsPrecision, m_usedShaderFile, gl, settings,
    host, crashed, obs>>

concVars == <<audioPc, renderPc>>

vars == <<audioVars, m_needsUpload, renderVars, concVars>>

Channels == 0..3

\* AudioData's position: at is "idle", "write" (about to store
\* m_audioData[i]) or "flag" (about to set m_needsUpload); mid is the byte
\* its dB scaling gives for a value between floor and ceiling.
AudioIdle == [at |-> "idle", i |-> 0, mid |-> 0]

Zeros(n) == [i \in 0..(n - 1) |-> 0]

----------------------------------------------------------------------------
(* The render-context code as functions of the world w: the object's       *)
(* render-side fields, the GL names, the settings and the record of what   *)
(* the running operation has done so far.                                  *)

World ==
  [m_settingsUseOwnshader |-> m_settingsUseOwnshader,
   m_currentPreset |-> m_currentPreset,
   m_initialized |-> m_initialized,
   m_channelTextures |-> m_channelTextures,
   m_shaderTextures |-> m_shaderTextures,
   m_state |-> m_state,
   m_bitsPrecision |-> m_bitsPrecision,
   m_usedShaderFile |-> m_usedShaderFile,
   m_needsUpload |-> m_needsUpload,
   m_audioData |-> m_audioData,
   gl |-> gl,
   settings |-> settings,
   host |-> host,
   crashed |-> crashed,
   obs |-> obs]

\* The record of an operation that has just been entered.
BeginOp(w, name) ==
  [w EXCEPT !.obs = [@ EXCEPT !.op = name, !.ret = TRUE, !.draws = <<>>,
                                !.uploads = {}, !.wrote = FALSE, !.probes = 0,
                                !.launched = <<>>, !.select = 0,
                                !.nofile = FALSE, !.load = "none",
                                !.probedBefore = (@ \/ w.obs.probes > 0),
                                !.cleanStart = (@ /\ w.m_initialized)]]

\* glGen*: the smallest name not in use.
NewName(live) ==
  CHOOSE n \in 1..(Cardinality(live) + 1) :
    n \notin live /\ \A m \in 1..(n - 1) : m \in live

UnloadPreset(w) ==
  LET w1 == IF w.m_state.framebuffer_texture # 0
              THEN [w EXCEPT !.gl.tex = @ \ {w.m_state.framebuffer_texture},
                             !.m_state.framebuffer_texture = 0]
              ELSE w
  IN  IF w1.m_state.effect_fb # 0
        THEN [w1 EXCEPT !.gl.fb = @ \ {w1.m_state.effect_fb},
                        !.m_state.effect_fb = 0]
        ELSE w1

UnloadTextures(w) ==
  [w EXCEPT !.gl.tex = @ \ {w.m_channelTextures[i] : i \in Channels},
            !.m_channelTextures = [i \in Channels |-> 0]]

\* The channels whose texture RenderTo refreshes from m_audioData.
AudioChannels(w) == {i \in Channels : w.m_shaderTextures[i].audio}

\* What an int shift 1 << b with b >= 32 (undefined) gives in a build: the
\* count is taken modulo 32 (x86), or the result is 0 (ARM).
ShiftOutcomes == {"wrap", "zero"}

\* intt after "if (m_bitsPrecision) intt &= (1 << m_bitsPrecision) - 1",
\* for 0 <= intt < 2^31, with 1 << bits and the subtraction in 32-bit int:
\* for bits <= 30 the mask is 2^bits - 1; for bits = 31 the shift gives
\* INT_MIN and INT_MIN - 1 wraps to 2^31 - 1; for bits >= 32 the shift is
\* undefined and gives 1 << (bits mod 32) or 0, the mask of 0 being -1.
RECURSIVE MaskedTime(_, _, _)
MaskedTime(intt, bits, shift) ==
  IF bits = 0 THEN intt
  ELSE IF bits <= 30 THEN intt % Pow2(bits)
  ELSE IF bits = 31 THEN intt
  ELSE IF shift = "zero" THEN intt
  ELSE IF bits % 32 = 0 THEN 0
  ELSE MaskedTime(intt, bits % 32, shift)

\* RenderTo(shader, effect_fb).  shader is "matrix" or "display": the
\* program object whose handle is passed.  The first branch is the one for
\* shader == m_matrixShader.ProgramHandle().  Each glDrawArrays is recorded
\* with its program, its framebuffer and whether an upload was still
\* pending when it drew; gl.time is intt, the milliseconds the effect pass
\* gives the time uniform (as intt / 1000.0f).
RenderTo(w, shader, effect_fb) ==
  LET w0 == IF shader = "matrix"
              THEN [w EXCEPT !.gl.time = MaskedTime(w.host.elapsed,
                                                    w.m_bitsPrecision, w.host.shift)]
              ELSE w
      w1 == IF shader = "matrix" /\ w0.m_needsUpload
              THEN [w0 EXCEPT !.m_needsUpload = FALSE,
                              !.obs.uploads = @ \cup AudioChannels(w0),
                              !.gl.data = IF AudioChannels(w0) # {}
                                            THEN w0.m_audioData ELSE @]
              ELSE w0
  IN  [w1 EXCEPT !.obs.draws = Append(@, [shader |-> shader, fb |-> effect_fb,
                                          pending |-> w1.m_needsUpload])]

\* A plausible slip: the old offscreen pair is not released first.
LoadPresetKeepsOld(w, outcome) ==
  IF outcome # "ok" THEN w
  ELSE LET t == NewName(w.gl.tex)
           f == NewName(w.gl.fb)
       IN  [w EXCEPT !.gl.tex = @ \cup {t},
                     !.gl.fb = @ \cup {f},
                     !.m_state.framebuffer_texture = t,
                     !.m_state.effect_fb = f]

\* LoadPreset(const std::string&): outcome is what loading, compiling and
\* linking the two programs gave.
LoadPreset(w, outcome) ==
  LET w1 == UnloadPreset(w)
  IN  IF outcome # "ok" THEN w1
      ELSE LET t == NewName(w1.gl.tex)
               f == NewName(w1.gl.fb)
           IN  [w1 EXCEPT !.gl.tex = @ \cup {t},
                          !.gl.fb = @ \cup {f},
                          !.m_state.framebuffer_texture = t,
                          !.m_state.effect_fb = f]

\* DetermineBitsPrecision, the state it leaves; the count it returns is the
\* host's (w.host.bits).
DetermineBitsPrecision(w, outcome) ==
  LET w1 == [w EXCEPT !.m_state.fbwidth = 32, !.m_state.fbheight = 260,
                      !.obs.probes = @ + 1]
      w2 == LoadPreset(w1, outcome)
      w3 == RenderTo(w2, "matrix", w2.m_state.effect_fb)
  IN  UnloadPreset(w3)

\* m_channelTextures[i] = CreateTexture(file, ...): 0 when the image does
\* not decode.
CreateFileTexture(w, i, ok) ==
  IF ok
    THEN LET t == NewName(w.gl.tex)
         IN  [w EXCEPT !.gl.tex = @ \cup {t}, !.m_channelTextures[i] = t]
    ELSE [w EXCEPT !.m_channelTextures[i] = 0]

\* The "if (!m_shaderTextures[i].texture.empty())" blocks of Launch.
LoadSlot(w, i, ok) ==
  IF w.m_shaderTextures[i].texture # "" THEN CreateFileTexture(w, i, ok) ELSE w

\* g_presets[preset]; reading past the end is undefined: the read gives
\* some entry (here one without channels) unless it ends the process.
PresetEntry(preset, ub) ==
  IF preset \in DOMAIN g_presets THEN g_presets[preset]
  ELSE [name |-> "?", file |-> "?", channel |-> [c \in Channels |-> -1]]

\* The loop body of Launch's catalog branch for channel i.
ResolveChannel(old, c) ==
  IF c >= 0 /\ c < FileTextureCount THEN [old EXCEPT !.texture = g_fileTextures[c]]
  ELSE IF c = 99 THEN [old EXCEPT !.audio = TRUE]
  ELSE [audio |-> FALSE, texture |-> ""]

\* The descriptor part of Launch (lines 504-535).
SetShaderTextures(w, preset, ub) ==
  IF preset < 0
    THEN [w EXCEPT !.m_usedShaderFile = "user",
                   !.m_shaderTextures =
                      [i \in Channels |-> [audio |-> w.settings.audio[i],
                                           texture |-> w.settings.texture[i]]]]
    ELSE LET e == PresetEntry(preset, ub)
         IN  [w EXCEPT !.m_usedShaderFile = e.file,
                       !.m_shaderTextures =
                          [i \in Channels |-> ResolveChannel(@[i], e.channel[i])]]

\* A plausible slip (and what a one-time probe would be): the probe is
\* skipped once it has run.
LaunchProbeOnce(w, env) ==
  IF w.obs.probedBefore THEN w
  ELSE [DetermineBitsPrecision(w, w.host.probeLoad)
          EXCEPT !.m_bitsPrecision = Max(w.host.bits, 13)]

\* A plausible slip: the probe's count is stored without the floor.
LaunchProbeNoFloor(w, env) ==
  [DetermineBitsPrecision(w, w.host.probeLoad)
     EXCEPT !.m_bitsPrecision = w.host.bits]

\* The first two statements of Launch:
\* m_bitsPrecision = max(DetermineBitsPrecision(), 13).
LaunchProbe(w, env) ==
  [DetermineBitsPrecision(w, w.host.probeLoad)
     EXCEPT !.m_bitsPrecision = Max(w.host.bits, 13)]

\* Launch(preset).
Launch(w, preset, env) ==
  LET w1 == [LaunchProbe(w, env) EXCEPT !.obs.launched = Append(@, preset)]
      w2 == UnloadTextures(w1)
  IN  IF preset >= PresetCount /\ env.ub = "crash"
        THEN [w2 EXCEPT !.crashed = TRUE]
        ELSE
          LET w3 == SetShaderTextures(w2, preset, env.ub)
              a  == NewName(w3.gl.tex)
              w4 == [w3 EXCEPT !.gl.tex = @ \cup {a}, !.m_channelTextures[0] = a,
                               !.gl.data = w3.m_audioData]
              w5 == LoadSlot(LoadSlot(LoadSlot(w4, 1, w.host.texOk[1]), 2, w.host.texOk[2]),
                             3, w.host.texOk[3])
              w6 == [w5 EXCEPT !.m_state.fbwidth = w.host.dim[1],
                               !.m_state.fbheight = w.host.dim[2],
                               !.obs.load = env.load]
          IN  LoadPreset(w6, env.load)

----------------------------------------------------------------------------
(* The public render-context operations.                                   *)

Render(w0) ==
  LET w == BeginOp(w0, "Render")
  IN  IF w.m_initialized
        THEN IF w.m_state.fbwidth # 0 /\ w.m_state.fbheight # 0
               THEN RenderTo(RenderTo(w, "matrix", w.m_state.effect_fb), "display", 0)
               ELSE RenderTo(w, "matrix", 0)
        ELSE w

Start(w0, env) ==
  LET w  == [BeginOp(w0, "Start")
               EXCEPT !.obs.cleanStart = (w0.gl.tex = {} /\ w0.gl.fb = {})]
      b  == NewName(w.gl.buf)
      w1 == [w EXCEPT !.gl.buf = @ \cup {b}, !.m_state.vertex_buffer = b]
      w2 == Launch(w1, w1.m_currentPreset, env)
  IN  IF w2.crashed THEN w2 ELSE [w2 EXCEPT !.m_initialized = TRUE]

Stop(w0) ==
  LET w  == [BeginOp(w0, "Stop") EXCEPT !.m_initialized = FALSE]
      w1 == UnloadTextures(UnloadPreset(w))
  IN  [w1 EXCEPT !.gl.buf = @ \ {w1.m_state.vertex_buffer}]

\* The body shared by the four preset operations once the index is
\* computed: m_currentPreset = idx; Launch(m_currentPreset);
\* kodi::SetSettingInt("lastpresetidx", m_currentPreset).
SwitchTo(w, idx, env) ==
  LET w1 == Launch([w EXCEPT !.m_currentPreset = idx], idx, env)
  IN  IF w1.crashed THEN w1
      ELSE [w1 EXCEPT !.settings.lastpresetidx = idx, !.obs.wrote = TRUE]

\* A plausible slip: the own-shader test is missing.
NextPresetUnguarded(w0, env) ==
  SwitchTo(BeginOp(w0, "NextPreset"),
           ModSizeT(w0.m_currentPreset + 1, PresetCount), env)

NextPreset(w0, env) ==
  LET w == BeginOp(w0, "NextPreset")
  IN  IF ~w.m_settingsUseOwnshader
        THEN SwitchTo(w, ModSizeT(w.m_currentPreset + 1, PresetCount), env)
        ELSE w

\* A plausible slip: the remainder is taken as an int, where -1 % n is -1.
PrevPresetSigned(w0, env) ==
  LET w == BeginOp(w0, "PrevPreset")
  IN  IF ~w.m_settingsUseOwnshader
        THEN SwitchTo(w, IF w.m_currentPreset - 1 >= 0
                           THEN (w.m_currentPreset - 1) % PresetCount
                           ELSE -((1 - w.m_currentPreset) % PresetCount), env)
        ELSE w

PrevPreset(w0, env) ==
  LET w == BeginOp(w0, "PrevPreset")
  IN  IF ~w.m_settingsUseOwnshader
        THEN SwitchTo(w, ModSizeT(w.m_currentPreset - 1, PresetCount), env)
        ELSE w

\* A plausible slip: select taken modulo the catalog size as an int.
SelectIndexSigned(select) ==
  IF select >= 0 THEN select % PresetCount ELSE -((-select) % PresetCount)

\* select % g_presets.size()
SelectIndex(select) == ModSizeT(select, PresetCount)

\* LoadPreset(int select)
LoadPresetInt(w0, select, env) ==
  LET w == [BeginOp(w0, "LoadPreset") EXCEPT !.obs.select = select]
  IN  IF ~w.m_settingsUseOwnshader
        THEN SwitchTo(w, SelectIndex(select), env)
        ELSE w

\* RAND_MAX, scaled down.
RandMax == 2

\* (int)((std::rand() / (float)RAND_MAX) * g_presets.size())
RandomIndex(r) == TruncDiv(r * PresetCount, RandMax)

RandomPreset(w0, r, env) ==
  LET w == BeginOp(w0, "RandomPreset")
  IN  IF ~w.m_settingsUseOwnshader
        THEN SwitchTo(w, RandomIndex(r), env)
        ELSE w

\* UpdateAlbumart: found is which thumbnail exists ("png", "jpg", "none"),
\* ok whether it decodes.
UpdateAlbumart(w0, found, ok) ==
  LET w  == [BeginOp(w0, "UpdateAlbumart") EXCEPT !.obs.nofile = (found = "none")]
      w1 == IF found = "png" THEN CreateFileTexture(w, 3, ok)
            ELSE IF found = "jpg" THEN CreateFileTexture(w, 3, ok)
            ELSE w
  IN  [w1 EXCEPT !.obs.ret = (w1.m_channelTextures[3] # 0)]

----------------------------------------------------------------------------
(* The state after construction.  The constructor zero-fills the three     *)
(* arrays and reads the two settings; the other members keep their         *)
(* in-class initialisers (zero, false, empty).  m_needsUpload may start    *)
(* either way.                                                             *)

\* The world the constructor leaves: own is the setting "ownshader", idx the
\* setting "lastpresetidx", u the user's shader set, h the host.
Constructed(own, needsUpload, u, idx, h) ==
  [m_settingsUseOwnshader |-> own,
   m_currentPreset |-> IF own THEN -1 ELSE idx,
   m_initialized |-> FALSE,
   m_channelTextures |-> [i \in Channels |-> 0],
   m_shaderTextures |-> [i \in Channels |-> [audio |-> FALSE, texture |-> ""]],
   m_state |-> [fbwidth |-> 0, fbheight |-> 0, effect_fb |-> 0,
                framebuffer_texture |-> 0, vertex_buffer |-> 0],
   m_bitsPrecision |-> 0,
   m_usedShaderFile |-> "",
   m_needsUpload |-> needsUpload,
   m_audioData |-> Zeros(AUDIO_BUFFER),
   gl |-> [tex |-> {}, fb |-> {}, buf |-> {}, data |-> Zeros(AUDIO_BUFFER),
           time |-> 0],
   settings |-> [lastpresetidx |-> idx, audio |-> u.audio, texture |-> u.texture],
   host |-> h,
   crashed |-> FALSE,
   obs |-> [op |-> "new", ret |-> TRUE, draws |-> <<>>, uploads |-> {},
            wrote |-> FALSE, probes |-> 0, launched |-> <<>>, select |-> 0,
            nofile |-> FALSE, load |-> "none", probedBefore |-> FALSE,
            cleanStart |-> FALSE]]

\* The variables hold world w, no audio has arrived and both contexts are
\* outside their calls.
Installed(w) ==
  /\ m_pcm = Zeros(AUDIO_BUFFER)
  /\ m_magnitudeBuffer = Zeros(NUM_BANDS)
  /\ m_audioData = w.m_audioData
  /\ m_needsUpload = w.m_needsUpload
  /\ m_settingsUseOwnshader = w.m_settingsUseOwnshader
  /\ m_currentPreset = w.m_currentPreset
  /\ m_initialized = w.m_initialized
  /\ m_channelTextures = w.m_channelTextures
  /\ m_shaderTextures = w.m_shaderTextures
  /\ m_state = w.m_state
  /\ m_bitsPrecision = w.m_bitsPrecision
  /\ m_usedShaderFile = w.m_usedShaderFile
  /\ gl = w.gl
  /\ settings = w.settings
  /\ host = w.host
  /\ crashed = w.crashed
  /\ obs = w.obs
  /\ audioPc = AudioIdle
  /\ renderPc = "idle"
  /\ calls = 0
  /\ input = <<>>
  /\ recent = Zeros(AUDIO_BUFFER)
  /\ fed = 0
  /\ done = Zeros(AUDIO_BUFFER)

\* The user's shader set with no image on any channel.
NoUserTextures == [i \in Channels |-> ""]

Init ==
  \E own \in BOOLEAN, needsUpload \in BOOLEAN, u \in UserSettings,
     idx \in PersistedIdx, h \in Hosts :
    \* lastpresetidx is read only with own-shader off, and the user's
    \* shader set only by a Launch of a negative index: one value stands
    \* for the values that are never read.
    /\ own => idx = 0
    /\ (~own /\ idx >= 0) => u.texture = NoUserTextures
    /\ Installed(Constructed(own, needsUpload, u, idx, h))

\* A plausible slip: a launch starts the smoothing history afresh.
CommitClearsHistory(w) ==
  /\ m_settingsUseOwnshader' = w.m_settingsUseOwnshader
  /\ m_currentPreset' = w.m_currentPreset
  /\ m_initialized' = w.m_initialized
  /\ m_channelTextures' = w.m_channelTextures
  /\ m_shaderTextures' = w.m_shaderTextures
  /\ m_state' = w.m_state
  /\ m_bitsPrecision' = w.m_bitsPrecision
  /\ m_usedShaderFile' = w.m_usedShaderFile
  /\ m_needsUpload' = w.m_needsUpload
  /\ gl' = w.gl
  /\ settings' = w.settings
  /\ host' = w.host
  /\ crashed' = w.crashed
  /\ obs' = w.obs
  /\ m_magnitudeBuffer' =
       IF w.obs.launched # <<>> THEN Zeros(NUM_BANDS) ELSE m_magnitudeBuffer
  /\ UNCHANGED <<m_pcm, m_audioData, calls, input, recent, fed, done, concVars>>

\* The render-context variables after an operation that ended in world w.
Commit(w) ==
  /\ m_settingsUseOwnshader' = w.m_settingsUseOwnshader
  /\ m_currentPreset' = w.m_currentPreset
  /\ m_initialized' = w.m_initialized
  /\ m_channelTextures' = w.m_channelTextures
  /\ m_shaderTextures' = w.m_shaderTextures
  /\ m_state' = w.m_state
  /\ m_bitsPrecision' = w.m_bitsPrecision
  /\ m_usedShaderFile' = w.m_usedShaderFile
  /\ m_needsUpload' = w.m_needsUpload
  /\ gl' = w.gl
  /\ settings' = w.settings
  /\ host' = w.host
  /\ crashed' = w.crashed
  /\ obs' = w.obs
  /\ UNCHANGED <<audioVars, concVars>>

\* Texture names no slot of the object holds any more.
Leaked ==
  gl.tex \ ({m_channelTextures[i] : i \in Channels} \cup {m_state.framebuffer_texture})

\* Vertex buffers no field of the object holds any more.
LeakedBuffers == gl.buf \ {m_state.vertex_buffer}

CanLaunch == ~crashed

\* One more name may be leaked.
MayLeak == Cardinality(Leaked) + Cardinality(LeakedBuffers) < MaxLeaks

\* The values LoadPreset(int) is called with.
Selects == {-2147483647, 0, 3}

StartCall ==
  /\ CanLaunch
  \* glGenBuffers over a live m_state.vertex_buffer leaks that buffer
  /\ m_state.vertex_buffer \in gl.buf => MayLeak
  /\ \E env \in LaunchEnvsFor(m_currentPreset) : Commit(Start(World, env))

StopCall == ~crashed /\ Commit(Stop(World))

RenderCall == ~crashed /\ Commit(Render(World))

NextPresetCall ==
  /\ CanLaunch
  /\ \E env \in LaunchEnvs : Commit(NextPreset(World, env))

PrevPresetCall ==
  /\ CanLaunch
  /\ \E env \in LaunchEnvs : Commit(PrevPreset(World, env))

LoadPresetCall ==
  /\ CanLaunch
  /\ \E select \in Selects, env \in LaunchEnvs :
       Commit(LoadPresetInt(World, select, env))

RandomPresetCall ==
  /\ CanLaunch
  /\ \E r \in 0..RandMax :
       \E env \in LaunchEnvsFor(RandomIndex(r)) : Commit(RandomPreset(World, r, env))

UpdateAlbumartCall ==
  /\ ~crashed
  /\ \E found \in {"png", "jpg", "none"}, ok \in BOOLEAN :
       \* storing into an occupied slot leaks its texture
       /\ (found # "none" /\ m_channelTextures[3] # 0) => MayLeak
       /\ Commit(UpdateAlbumart(World, found, ok))

Next ==
  \/ StartCall
  \/ StopCall
  \/ RenderCall
  \/ NextPresetCall
  \/ PrevPresetCall
  \/ LoadPresetCall
  \/ RandomPresetCall
  \/ UpdateAlbumartCall

Spec == Init /\ [][Next]_vars

----------------------------------------------------------------------------
(* Properties of the render-context operations (specification Spec).       *)

\* The names obs.op takes after the four preset operations.
PresetOps == {"NextPreset", "PrevPreset", "LoadPreset", "RandomPreset"}

NoChannelTexture == \A i \in Channels : m_channelTextures[i] = 0

NoOffscreen == m_state.effect_fb = 0 /\ m_state.framebuffer_texture = 0

\* C3: in a session that began with Start on a context holding no texture
\* and no framebuffer, once Stop has returned every texture and framebuffer
\* name created since has been deleted, the four channel slots are zero and
\* the offscreen framebuffer/texture pair is zero.
C3_StopLeavesNothing ==
  (obs.op = "Stop" /\ obs.cleanStart)
    => gl.tex = {} /\ gl.fb = {} /\ NoChannelTexture /\ NoOffscreen

\* C6: the operation whose launch failed to load, compile or link a program
\* leaves no channel texture and no offscreen handle allocated, and the
\* Render call that follows it issues no draw call.
C6_FailedLoadTornDown ==
  [][/\ obs'.load \in LoadOutcomes \ {"ok"}
          => \A i \in Channels : m_channelTextures'[i] = 0
     /\ obs'.load \in LoadOutcomes \ {"ok"}
          => m_state'.effect_fb = 0 /\ m_state'.framebuffer_texture = 0
     /\ (obs.load \in LoadOutcomes \ {"ok"} /\ obs'.op = "Render")
          => obs'.draws = <<>>]_vars

\* C7: with own-shader off, LoadPreset(select) leaves m_currentPreset in
\* 0 .. g_presets.size() - 1 for every select, launches that index and no
\* other, loads that catalog entry's shader file, and does not read
\* g_presets out of range.
C7_LoadPresetInRange ==
  (obs.op = "LoadPreset" /\ ~m_settingsUseOwnshader)
    => /\ m_currentPreset \in DOMAIN g_presets
       /\ obs.launched = <<m_currentPreset>>
       /\ m_usedShaderFile = g_presets[m_currentPreset].file
       /\ ~crashed

\* C7's case: a negative select has been reduced to a catalog index.
C7_Witness ==
  /\ obs.op = "LoadPreset"
  /\ ~m_settingsUseOwnshader
  /\ obs.select < 0
  /\ m_currentPreset = 1
  /\ obs.launched = <<1>>

\* C8: with own-shader on, each of NextPreset, PrevPreset, LoadPreset(int)
\* and RandomPreset leaves m_currentPreset at -1, runs no Launch and no
\* probe, leaves every texture, framebuffer and buffer name, every slot,
\* the offscreen pair and m_bitsPrecision as they were, and does not write
\* lastpresetidx.
C8_OwnShaderNoOp ==
  [][(m_settingsUseOwnshader /\ obs'.op \in PresetOps)
       => /\ m_currentPreset = -1 /\ m_currentPreset' = -1
          /\ obs'.launched = <<>> /\ obs'.probes = 0
          /\ gl' = gl
          /\ m_channelTextures' = m_channelTextures
          /\ m_shaderTextures' = m_shaderTextures
          /\ m_state' = m_state
          /\ m_bitsPrecision' = m_bitsPrecision
          /\ m_usedShaderFile' = m_usedShaderFile
          /\ m_needsUpload' = m_needsUpload
          /\ ~obs'.wrote /\ settings' = settings]_vars

\* C8's case: NextPreset has returned on a started own-shader pipeline.
C8_Witness ==
  /\ m_settingsUseOwnshader
  /\ obs.op = "NextPreset"
  /\ m_initialized
  /\ m_state.effect_fb # 0
  /\ m_channelTextures[0] # 0

\* C9: an UpdateAlbumart call that finds neither thumbnail leaves
\* m_channelTextures[3] as it was and returns false, whatever the slot held.
C9_NoFileReturnsFalse ==
  [][(obs'.op = "UpdateAlbumart" /\ obs'.nofile)
       => m_channelTextures'[3] = m_channelTextures[3] /\ obs'.ret = FALSE]_vars

C11_OneOffscreenPair ==
  /\ m_state.effect_fb # 0 <=> m_state.framebuffer_texture # 0
  /\ gl.fb = {m_state.effect_fb} \ {0}
  /\ Cardinality(gl.fb) <= 1
  /\ m_state.framebuffer_texture # 0
       => /\ m_state.framebuffer_texture \in gl.tex
          /\ \A i \in Channels : m_channelTextures[i] # m_state.framebuffer_texture

\* C11's case: a preset switch on a pipeline that already had a pair has
\* replaced it.
C11_Witness ==
  /\ obs.op \in PresetOps
  /\ obs.launched # <<>>
  /\ obs.probedBefore
  /\ m_initialized
  /\ m_state.effect_fb # 0
  /\ m_state.framebuffer_texture # 0

------------------------------------------------------------\* C16: once a Launch has run its probe, m_bitsPrecision is at least 13,
\* and it is the probe's count when that is larger, whether the probe
\* counted no transition or its shader failed to load.
C16_PrecisionFloor ==
  obs.launched # <<>>
    => /\ m_bitsPrecision >= 13
       /\ m_bitsPrecision = IF host.bits > 13 THEN host.bits ELSE 13

\* C16's case: a Launch has run on a host whose probe linked and counted
\* no transition.
C16_Witness ==
  /\ obs.launched # <<>>
  /\ obs.probes = 1
  /\ host.bits = 0
  /\ host.probeLoad = "ok"
  /\ m_bitsPrecision = 13

\* C17: with the own-shader setting off, after RandomPreset m_currentPreset
\* is within [0, g_presets.size()) whatever rand() returned, and the index
\* its Launch read g_presets at is within range.
C17_RandomPresetInRange ==
  (obs.op = "RandomPreset" /\ ~m_settingsUseOwnshader)
    => /\ m_currentPreset \in 0..(PresetCount - 1)
       /\ \A k \in 1..Len(obs.launched) : obs.launched[k] \in 0..(PresetCount - 1)

\* C18: the index Start passes to Launch is within [0, g_presets.size())
\* when the own-shader setting is off, whatever lastpresetidx the
\* constructor read, and it is -1 when the setting is on.
C18_StartIndexInRange ==
  obs.op = "Start"
    => /\ Len(obs.launched) = 1
       /\ IF m_settingsUseOwnshader
            THEN obs.launched[1] = -1
            ELSE obs.launched[1] \in 0..(PresetCount - 1)

\* C19: after a Launch (one that returned) the audio texture, the one
\* Launch creates from m_audioData, is in exactly the audio-tagged channel
\* slots: every audio-tagged channel holds a live nonzero texture, which
\* the next pending upload fills, and no other channel holds the audio
\* texture.
C19_AudioTextureFollowsTags ==
  (obs.launched # <<>> /\ ~crashed)
    => \A i \in Channels :
         IF m_shaderTextures[i].audio
           THEN m_channelTextures[i] # 0 /\ m_channelTextures[i] \in gl.tex
           ELSE i # 0 /\ m_channelTextures[i] # m_channelTextures[0]

\* C20: a Render on an initialized pipeline with nonzero fbwidth and
\* fbheight draws exactly one effect pass into the offscreen framebuffer and
\* then exactly one display pass into the display target 0, with no audio
\* upload pending at the effect draw; with a zero size it draws exactly one
\* effect pass, into the display target; not initialized it draws nothing.
C20_RenderPassOrder ==
  obs.op = "Render"
    => IF ~m_initialized THEN obs.draws = <<>>
       ELSE IF m_state.fbwidth # 0 /\ m_state.fbheight # 0
         THEN /\ Len(obs.draws) = 2
              /\ obs.draws[1].shader = "matrix"
              /\ obs.draws[1].fb # 0
              /\ obs.draws[1].fb = m_state.effect_fb
              /\ obs.draws[1].fb \in gl.fb
              /\ ~obs.draws[1].pending
              /\ obs.draws[2].shader = "display"
              /\ obs.draws[2].fb = 0
         ELSE /\ Len(obs.draws) = 1
              /\ obs.draws[1].shader = "matrix"
              /\ obs.draws[1].fb = 0
              /\ ~obs.draws[1].pending

----------------
(* AudioData as one atomic call (specification SpecAudio).                 *)

\* iAudioDataLength of a chunk.
Length(c) == Cardinality(DOMAIN c)

\* The down-mixed stream, for stating the ring's contract: frame j of a
\* 2-channel chunk, and the last AUDIO_BUFFER frames of the stream after a
\* chunk of f frames is appended to it.
Mono(c, j) == (c[2 * j] + c[2 * j + 1]) \div 2

RecentAfter(old, c) ==
  LET f == Length(c) \div 2
  IN  [i \in 0..(AUDIO_BUFFER - 1) |->
         IF i + f < AUDIO_BUFFER THEN old[i + f] ELSE Mono(c, i + f - AUDIO_BUFFER)]

\* The history kept on entry to AudioData(c, ...).
Fed(c) ==
  /\ calls' = calls + 1
  /\ input' = c
  /\ recent' = RecentAfter(recent, c)
  /\ fed' = Min(fed + Length(c) \div 2, AUDIO_BUFFER)

\* One fixed object (own-shader off, lastpresetidx 0) before Start.
InitAudio ==
  \E needsUpload \in BOOLEAN, u \in UserSettings :
    /\ u.texture = NoUserTextures
    /\ Installed(Constructed(FALSE, needsUpload, u, 0, GoodHost))

\* AudioData(c, Length(c), ...) for a chunk c of the set S.
AudioDataOver(S) ==
  /\ calls < MaxCalls
  /\ \E c \in S :
       LET pcm == WriteToBuffer(m_pcm, c, Length(c), 2)
           mag == SmoothingOverTime(m_magnitudeBuffer, Magnitude(pcm))
       IN  \E mid \in MidChoices(mag) :
             /\ m_pcm' = pcm
             /\ m_magnitudeBuffer' = mag
             /\ m_audioData' = AudioBytes(m_audioData, pcm, mag, mid)
             /\ m_needsUpload' = TRUE
             /\ done' = m_audioData'
             /\ Fed(c)
  /\ UNCHANGED <<renderVars, concVars>>

AudioData == AudioDataOver(Chunks)

NextAudio == AudioData

SpecAudio == InitAudio /\ [][NextAudio]_vars

\* C1: once at least AUDIO_BUFFER frames have been delivered, in chunks of
\* any size including more than AUDIO_BUFFER frames, m_pcm is the last
\* AUDIO_BUFFER down-mixed frames of the stream, oldest first.
C1_RingHoldsMostRecent == fed >= AUDIO_BUFFER => m_pcm = recent

\* C2: a call delivering k < AUDIO_BUFFER frames moves the ring's samples
\* k .. N-1 to 0 .. N-k-1 and stores the k new down-mixed frames at
\* N-k .. N-1; so a ring that held the stream's tail holds it again.
C2_ShortIngestShifts ==
  [][(calls' = calls + 1 /\ Length(input') \div 2 < AUDIO_BUFFER)
       => LET k == Length(input') \div 2
          IN  /\ m_pcm' = [i \in 0..(AUDIO_BUFFER - 1) |->
                             IF i < AUDIO_BUFFER - k THEN m_pcm[i + k]
                             ELSE Mono(input', i - (AUDIO_BUFFER - k))]
              /\ m_pcm = recent => m_pcm' = recent']_vars

\* C2's case: two successive one-frame ingests have filled the ring with
\* two different frames.
C2_Witness ==
  /\ calls = 2
  /\ Length(input) \div 2 = 1
  /\ fed = 2
  /\ m_pcm[AUDIO_BUFFER - 2] = PcmOne
  /\ m_pcm[AUDIO_BUFFER - 1] = -PcmOne
  /\ m_pcm = recent

----------------------------------------------------------------------------
(* AudioData and Render on their own contexts (specification SpecConc).    *)
(* The code takes no lock and m_needsUpload is a plain bool, so the two    *)
(* calls interleave; the steps are AudioData's ring update, each store to  *)
(* m_audioData, the store to m_needsUpload, and Render's test of the flag, *)
(* its upload (one read of the whole buffer), its store to the flag and    *)
(* its draw.                                                               *)

\* A started pipeline showing catalog preset 0 (channel 0 is the audio
\* texture) on a host where everything succeeded.
InitConc ==
  \E u \in UserSettings :
    /\ u.texture = NoUserTextures
    /\ Installed(Start(Constructed(FALSE, FALSE, u, 0, GoodHost),
                       [load |-> "ok", ub |-> "none"]))

\* A plausible slip: m_needsUpload is set on entry, before the bytes are
\* stored.
AudioBeginFlagsFirst(S) ==
  /\ audioPc.at = "idle"
  /\ calls < MaxCalls
  /\ \E c \in S :
       LET pcm == WriteToBuffer(m_pcm, c, Length(c), 2)
           mag == SmoothingOverTime(m_magnitudeBuffer, Magnitude(pcm))
       IN  \E mid \in MidChoices(mag) :
             /\ m_pcm' = pcm
             /\ m_magnitudeBuffer' = mag
             /\ audioPc' = [at |-> "write", i |-> 0, mid |-> mid]
             /\ Fed(c)
  /\ m_needsUpload' = TRUE
  /\ UNCHANGED <<m_audioData, done, renderVars, renderPc>>

\* WriteToBuffer and SmoothingOverTime of a call with a chunk of the set S:
\* nothing Render reads.
AudioBeginOver(S) ==
  /\ audioPc.at = "idle"
  /\ calls < MaxCalls
  /\ \E c \in S :
       LET pcm == WriteToBuffer(m_pcm, c, Length(c), 2)
           mag == SmoothingOverTime(m_magnitudeBuffer, Magnitude(pcm))
       IN  \E mid \in MidChoices(mag) :
             /\ m_pcm' = pcm
             /\ m_magnitudeBuffer' = mag
             /\ audioPc' = [at |-> "write", i |-> 0, mid |-> mid]
             /\ Fed(c)
  /\ UNCHANGED <<m_audioData, done, m_needsUpload, renderVars, renderPc>>

AudioBegin == AudioBeginOver(Chunks)

\* m_audioData[i] = ... of either loop.
AudioWrite ==
  /\ audioPc.at = "write"
  /\ m_audioData' =
       [m_audioData EXCEPT ![audioPc.i] =
          AudioByte(m_pcm, m_magnitudeBuffer, audioPc.i, audioPc.mid)]
  /\ audioPc' = IF audioPc.i + 1 < 2 * NUM_BANDS
                  THEN [audioPc EXCEPT !.i = @ + 1]
                  ELSE [audioPc EXCEPT !.at = "flag"]
  /\ UNCHANGED <<m_pcm, m_magnitudeBuffer, calls, input, recent, fed, done,
                 m_needsUpload, renderVars, renderPc>>

\* m_needsUpload = true; AudioData returns.
AudioFlag ==
  /\ audioPc.at = "flag"
  /\ m_needsUpload' = TRUE
  /\ done' = m_audioData
  /\ audioPc' = AudioIdle
  /\ UNCHANGED <<m_pcm, m_magnitudeBuffer, m_audioData, calls, input, recent,
                 fed, renderVars, renderPc>>

\* Render, RenderTo(matrix): if (m_needsUpload).
RenderTest ==
  /\ renderPc = "idle"
  /\ m_initialized
  /\ renderPc' = IF m_needsUpload THEN "upload" ELSE "draw"
  /\ UNCHANGED <<audioVars, m_needsUpload, renderVars, audioPc>>

\* The glTexImage2D calls of the audio-tagged channels.
RenderUpload ==
  /\ renderPc = "upload"
  /\ gl' = [gl EXCEPT !.data = IF AudioChannels(World) # {}
                                 THEN m_audioData ELSE @]
  /\ renderPc' = "clear"
  /\ UNCHANGED <<audioVars, m_needsUpload, m_settingsUseOwnshader,
                 m_currentPreset, m_initialized, m_channelTextures,
                 m_shaderTextures, m_state, m_bitsPrecision, m_usedShaderFile,
                 settings, host, crashed, obs, audioPc>>

\* m_needsUpload = false.
RenderClear ==
  /\ renderPc = "clear"
  /\ m_needsUpload' = FALSE
  /\ renderPc' = "draw"
  /\ UNCHANGED <<audioVars, renderVars, audioPc>>

\* The draw of the effect pass and the display pass; Render returns.
RenderDraw ==
  /\ renderPc = "draw"
  /\ renderPc' = "idle"
  /\ UNCHANGED <<audioVars, m_needsUpload, renderVars, audioPc>>

NextConc ==
  \/ AudioBegin
  \/ AudioWrite
  \/ AudioFlag
  \/ RenderTest
  \/ RenderUpload
  \/ RenderClear
  \/ RenderDraw

SpecConc == InitConc /\ [][NextConc]_vars

\* The buffer the AudioData call in progress is storing (the last finished
\* one when no call is in progress).
Pending ==
  IF audioPc.at = "idle" THEN done
  ELSE AudioBytes(m_audioData, m_pcm, m_magnitudeBuffer, audioPc.mid)

\* C4: every upload reads either the complete buffer of the last finished
\* AudioData call or the complete buffer of the call then in progress,
\* never some bytes of one and some of the other.
C4_UploadSeesOneBuffer ==
  [][(renderPc = "upload" /\ renderPc' = "clear")
       => gl'.data \in {done, Pending}]_vars

\* C5: whenever both contexts are outside their calls and m_needsUpload is
\* false, the audio texture holds the current m_audioData.
C5_NoBufferLost ==
  (audioPc.at = "idle" /\ renderPc = "idle" /\ ~m_needsUpload)
    => gl.data = m_audioData

----------------------------------------------------------------------------
(* Stop statement by statement (specification SpecStop): the order in      *)
(* which it clears m_initialized and releases the GL objects.  The other   *)
(* operations run whole, between Stop calls; renderPc names the statement  *)
(* Stop is about to run.                                                   *)

\* A plausible slip: the vertex buffer is deleted first.
StopStatementsBufferFirst ==
  <<"glDeleteBuffers", "m_initialized = false", "UnloadPreset", "UnloadTextures">>

\* The statements of Stop, in source order.
StopStatements ==
  <<"m_initialized = false", "UnloadPreset", "UnloadTextures", "glDeleteBuffers">>

\* What one statement of Stop does to the world.
StopStatement(w, st) ==
  CASE st = "m_initialized = false" -> [w EXCEPT !.m_initialized = FALSE]
    [] st = "UnloadPreset" -> UnloadPreset(w)
    [] st = "UnloadTextures" -> UnloadTextures(w)
    [] st = "glDeleteBuffers" -> [w EXCEPT !.gl.buf = @ \ {w.m_state.vertex_buffer}]

\* The statement after the one at position k, "idle" after the last.
StopAfter(k) ==
  IF k < Len(StopStatements) THEN StopStatements[k + 1] ELSE "idle"

\* Stop is entered.
StopEnter ==
  /\ renderPc = "idle"
  /\ ~crashed
  /\ obs' = BeginOp(World, "Stop").obs
  /\ renderPc' = StopStatements[1]
  /\ UNCHANGED <<audioVars, m_needsUpload, m_settingsUseOwnshader,
                 m_currentPreset, m_initialized, m_channelTextures,
                 m_shaderTextures, m_state, m_bitsPrecision, m_usedShaderFile,
                 gl, settings, host, crashed, audioPc>>

\* Stop runs its next statement.
StopStep ==
  /\ renderPc # "idle"
  /\ \E k \in 1..Len(StopStatements) :
       /\ StopStatements[k] = renderPc
       /\ LET w == StopStatement(World, renderPc)
          IN  /\ m_initialized' = w.m_initialized
              /\ m_channelTextures' = w.m_channelTextures
              /\ m_state' = w.m_state
              /\ gl' = w.gl
       /\ renderPc' = StopAfter(k)
  /\ UNCHANGED <<audioVars, m_needsUpload, m_settingsUseOwnshader,
                 m_currentPreset, m_shaderTextures, m_bitsPrecision,
                 m_usedShaderFile, settings, host, crashed, obs, audioPc>>

NextStop ==
  \/ StopEnter
  \/ StopStep
  \/ renderPc = "idle" /\ StartCall
  \/ renderPc = "idle" /\ NextPresetCall
  \/ renderPc = "idle" /\ UpdateAlbumartCall

SpecStop == Init /\ [][NextStop]_vars

\* C12: inside Stop no GL object is released while m_initialized is true,
\* and the vertex buffer is deleted only once the offscreen pair and all
\* four channel slots have been released (are zero, no framebuffer live).
C12_StopOrder ==
  [][/\ (renderPc # "idle"
           /\ (gl'.tex # gl.tex \/ gl'.fb # gl.fb \/ gl'.buf # gl.buf))
          => ~m_initialized
     /\ (renderPc # "idle" /\ gl'.buf # gl.buf)
          => /\ m_state.effect_fb = 0 /\ m_state.framebuffer_texture = 0
             /\ \A i \in Channels : m_channelTextures[i] = 0
             /\ gl.fb = {}]_vars

\* C12's case: Stop, entered on a launched Album pipeline, has released the
\* offscreen pair and the channel textures and is about to delete the live
\* vertex buffer.
C12_Witness ==
  /\ renderPc = "glDeleteBuffers"
  /\ obs.op = "Stop"
  /\ m_state.vertex_buffer \in gl.buf
  /\ m_state.fbwidth # 0
  /\ m_usedShaderFile = "album.frag.glsl"
  /\ NoChannelTexture
  /\ NoOffscreen

----------------------------------------------------------------------------
(* The byte encoding (specification SpecLevels): AudioData over one-frame  *)
(* chunks of every level and over silence.                                 *)

AudioDataLevels == AudioDataOver(LevelChunks)

NextLevels == AudioDataLevels

SpecLevels == InitAudio /\ [][NextLevels]_vars

\* C13 as stated: after an AudioData call every waveform byte
\* m_audioData[NUM_BANDS + i] is (m_pcm[i] + 1.0) * 128.0 rounded to the
\* nearest integer and clamped to 0 .. 255.
C13_WaveByteRounds ==
  calls > 0
    => \A i \in 0..(NUM_BANDS - 1) :
         m_audioData[NUM_BANDS + i]
           = Max(Min((256 * (m_pcm[i] + PcmOne) + PcmOne) \div (2 * PcmOne),
                     UCHAR_MAX), 0)

\* C13 amended: every waveform byte b is v = (m_pcm[i] + 1.0) * 128.0 with
\* its fraction dropped, b <= v < b + 1, or 255 when v >= 255, for the ring
\* as this call left it; 0.0 gives 128, 1.0 gives 255 and -1.0 gives 0.
C13_WaveByteTruncates ==
  calls > 0
    => \A i \in 0..(NUM_BANDS - 1) :
         LET b == m_audioData[NUM_BANDS + i]
             v128 == (m_pcm[i] + PcmOne) * 128
         IN  /\ b \in 0..UCHAR_MAX
             /\ b * PcmOne <= v128
             /\ b < UCHAR_MAX => v128 < (b + 1) * PcmOne
             /\ m_pcm[i] = 0 => b = 128
             /\ m_pcm[i] = PcmOne => b = UCHAR_MAX
             /\ m_pcm[i] = -PcmOne => b = 0

\* C13's case: a call has encoded a sample whose v has a fraction above
\* one half (rounding would give the next byte).
C13_Witness ==
  /\ calls > 0
  /\ \E i \in 0..(NUM_BANDS - 1) :
       /\ 2 * (((m_pcm[i] + PcmOne) * 128) % PcmOne) >= PcmOne
       /\ m_audioData[NUM_BANDS + i] * PcmOne < (m_pcm[i] + PcmOne) * 128
       /\ m_audioData[NUM_BANDS + i] < UCHAR_MAX

\* C14: after an AudioData call a band whose smoothed magnitude is exactly
\* zero has the spectrum byte 0; and a call that delivers an all-zero chunk
\* to an analyzer whose ring, magnitudes and spectrum bytes are all zero (as
\* they are when fresh) leaves them all zero.
C14_ZeroMagnitudeIsZeroByte ==
  [][calls' = calls + 1
       => /\ \A k \in 0..(NUM_BANDS - 1) :
               m_magnitudeBuffer'[k] = 0 => m_audioData'[k] = 0
          /\ ( /\ \A i \in DOMAIN m_pcm : m_pcm[i] = 0
               /\ \A k \in 0..(NUM_BANDS - 1) :
                    m_magnitudeBuffer[k] = 0 /\ m_audioData[k] = 0
               /\ \A i \in DOMAIN input' : input'[i] = 0 )
             => \A k \in 0..(NUM_BANDS - 1) :
                  m_magnitudeBuffer'[k] = 0 /\ m_audioData'[k] = 0]_vars

\* C14's case: the analyzer has taken silence only, the last chunk not
\* empty, in every call the bound allows, and its spectrum half is zero.
C14_Witness ==
  /\ calls = MaxCalls
  /\ Length(input) > 0
  /\ \A i \in DOMAIN input : input[i] = 0
  /\ \A i \in DOMAIN m_pcm : m_pcm[i] = 0
  /\ \A k \in 0..(NUM_BANDS - 1) : m_magnitudeBuffer[k] = 0 /\ m_audioData[k] = 0
  /\ m_needsUpload

\* C15: with smoothingTimeConstant = 0.5, a call whose raw magnitude is m
\* leaves every band's smoothed value at half its former distance from m;
\* so a smoothed value equal to m stays at m, and while successive calls
\* measure the same m the distance halves with every call.
C15_SmoothingHalvesDistance ==
  [][calls' = calls + 1
       => LET m == Magnitude(m_pcm')
          IN  \A k \in 0..(NUM_BANDS - 1) :
                /\ 2 * Abs(m_magnitudeBuffer'[k] - m) = Abs(m_magnitudeBuffer[k] - m)
                /\ m_magnitudeBuffer[k] = m => m_magnitudeBuffer'[k] = m]_vars

\* C15's case: from a fresh analyzer two successive calls have measured the
\* same raw magnitude m > 0: the smoothed value went 0, m/2, 3m/4 (which
\* two different magnitudes cannot give).
C15_Witness ==
  /\ calls = 2
  /\ Magnitude(m_pcm) > 0
  /\ Magnitude(recent) = Magnitude(m_pcm)
  /\ \A k \in 0..(NUM_BANDS - 1) : 4 * m_magnitudeBuffer[k] = 3 * Magnitude(m_pcm)

----------------------------------------------------------------------------
(* The time uniform (specification SpecTime): a pipeline started on a host *)
(* with any probe count, rendered at one clock reading.                    *)

\* fbheight of the probe, the rows of the column DetermineBitsPrecision reads.
ProbeRows == 260

\* The counts its loop can return: a transition needs a zero row before a
\* nonzero one.
ProbeCounts == 0..(ProbeRows \div 2)

\* Clock readings, in milliseconds since m_initialTime.
Instants == {0, 8191, 8192, 12345, 1073741824 + 8193, 2147483647}

TimeHosts ==
  {[GoodHost EXCEPT !.bits = b, !.elapsed = t, !.shift = s] :
     b \in ProbeCounts, t \in Instants, s \in ShiftOutcomes}

InitTime ==
  \E h \in TimeHosts, u \in UserSettings :
    /\ u.texture = NoUserTextures
    /\ Installed(Constructed(FALSE, FALSE, u, 0, h))

NextTime == StartCall \/ RenderCall \/ StopCall

SpecTime == InitTime /\ [][NextTime]_vars

\* C21: after a Render that drew its effect pass with a calibrated
\* precision of b > 0 bits, the milliseconds given to the time uniform are
\* the elapsed time modulo 2^b, within [0, 2^b), for every count the probe
\* can return (elapsed times below 2^31).
C21_TimeWrapsAtPrecision ==
  (obs.op = "Render" /\ obs.draws # <<>> /\ m_bitsPrecision # 0)
    => /\ gl.time >= 0
       /\ IF m_bitsPrecision >= 31
            THEN gl.time = host.elapsed
            ELSE /\ gl.time = host.elapsed % Pow2(m_bitsPrecision)
                 /\ gl.time < Pow2(m_bitsPrecision)

----------------------------------------------------------------------------
(* Both contexts on one object.  Specification SpecHistory: the first     *)
(* AudioData call, whole, at any point among the eight render-context      *)
(* operations.  Specification SpecFrame: AudioData calls, store by store,   *)
(* between and during Start, Render, NextPreset and Stop.                   *)

\* One loud frame.
ToneChunks == {[i \in 0..1 |-> PcmOne]}

\* The first AudioData call, which gives the analysis a history.
AudioDataFirst == calls = 0 /\ AudioDataOver(ToneChunks)

NextHistory ==
  \/ AudioDataFirst
  \/ StartCall
  \/ StopCall
  \/ RenderCall
  \/ NextPresetCall
  \/ PrevPresetCall
  \/ LoadPresetCall
  \/ RandomPresetCall
  \/ UpdateAlbumartCall

SpecHistory == InitAudio /\ [][NextHistory]_vars

AudioBeginTone == AudioBeginOver(ToneChunks)

NextFrame ==
  \/ AudioBeginTone
  \/ AudioWrite
  \/ AudioFlag
  \/ StartCall
  \/ StopCall
  \/ RenderCall
  \/ NextPresetCall

SpecFrame == InitAudio /\ [][NextFrame]_vars

\* C22: Start, Stop, Render, NextPreset, PrevPreset, LoadPreset,
\* RandomPreset and UpdateAlbumart (every step that is not AudioData's) leave
\* the ring m_pcm and the smoothed spectrum m_magnitudeBuffer as they were.
C22_OnlyAudioDataWritesAnalysis ==
  [][(audioPc' = audioPc /\ calls' = calls)
       => m_pcm' = m_pcm /\ m_magnitudeBuffer' = m_magnitudeBuffer]_vars

\* C22's case: a pipeline that has taken a loud chunk and was started again
\* afterwards (the probe of that Start consumed the upload the chunk left
\* pending) still has its ring and its smoothing history.
C22_Witness ==
  /\ obs.op = "Start"
  /\ obs.probedBefore
  /\ m_initialized
  /\ audioPc = AudioIdle
  /\ calls = 1
  /\ ~m_needsUpload
  /\ \E i \in DOMAIN m_pcm : m_pcm[i] # 0
  /\ \A k \in 0..(NUM_BANDS - 1) : m_magnitudeBuffer[k] # 0

\* C23: a step of AudioData leaves the channel textures, the offscreen
\* pair, the vertex buffer, the live GL names, m_currentPreset,
\* m_initialized and m_bitsPrecision as they were; it changes m_needsUpload
\* only in its last step, to true, when all 2 * NUM_BANDS bytes of this
\* call are stored.
C23_AudioDataFrame ==
  [][(audioPc' # audioPc)
       => /\ m_channelTextures' = m_channelTextures
          /\ m_state' = m_state
          /\ gl' = gl
          /\ m_currentPreset' = m_currentPreset
          /\ m_initialized' = m_initialized
          /\ m_bitsPrecision' = m_bitsPrecision
          /\ m_shaderTextures' = m_shaderTextures
          /\ m_usedShaderFile' = m_usedShaderFile
          /\ IF audioPc.at = "flag"
               THEN /\ m_needsUpload'
                    /\ audioPc' = AudioIdle
                    /\ \A i \in 0..(2 * NUM_BANDS - 1) :
                         m_audioData[i]
                           = AudioByte(m_pcm, m_magnitudeBuffer, i, audioPc.mid)
               ELSE m_needsUpload' = m_needsUpload]_vars

\* C23's case: an AudioData call has just returned on a started pipeline
\* that holds channel textures, the offscreen pair and the vertex buffer.
C23_Witness ==
  /\ audioPc = AudioIdle
  /\ calls > 0
  /\ m_needsUpload
  /\ done = m_audioData
  /\ \E i \in DOMAIN m_pcm : m_pcm[i] # 0
  /\ m_initialized
  /\ m_channelTextures[0] # 0
  /\ m_state.effect_fb # 0
  /\ m_state.vertex_buffer \in gl.buf

----------------------------------------------------------------------------
(* Stepping through the catalog (specification SpecCycle): an object with  *)
(* the own-shader setting off and a persisted index within the catalog,    *)
(* under Start, Render, Stop, NextPreset and PrevPreset.                   *)

InitCycle ==
  \E needsUpload \in BOOLEAN, u \in UserSettings, idx \in DOMAIN g_presets,
     h \in Hosts :
    /\ u.texture = NoUserTextures
    /\ Installed(Constructed(FALSE, needsUpload, u, idx, h))

NextCycle ==
  \/ StartCall
  \/ RenderCall
  \/ StopCall
  \/ NextPresetCall
  \/ PrevPresetCall

SpecCycle == InitCycle /\ [][NextCycle]_vars

\* C24: with the own-shader setting off and m_currentPreset within the
\* catalog, NextPreset moves to the next index, the last wrapping to 0, and
\* a PrevPreset after it gives the starting index back; PrevPreset moves to
\* the previous index, 0 wrapping to the last, and a NextPreset after it
\* gives the starting index back.
C24_NextPrevRoundTrip ==
  [][(/\ ~m_settingsUseOwnshader
      /\ m_currentPreset \in DOMAIN g_presets
      /\ obs'.op \in {"NextPreset", "PrevPreset"})
       => IF obs'.op = "NextPreset"
            THEN /\ m_currentPreset' = IF m_currentPreset = PresetCount - 1
                                         THEN 0 ELSE m_currentPreset + 1
                 /\ \A env \in LaunchEnvs :
                      PrevPreset(World', env).m_currentPreset = m_currentPreset
            ELSE /\ m_currentPreset' = IF m_currentPreset = 0
                                         THEN PresetCount - 1
                                         ELSE m_currentPreset - 1
                 /\ \A env \in LaunchEnvs :
                      NextPreset(World', env).m_currentPreset = m_currentPreset]_vars

\* C24's case: PrevPreset has wrapped from index 0 to the last index (in
\* SpecCycle the index is always within the catalog, and only index 0 has
\* the last index before it).
C24_Witness ==
  /\ obs.op = "PrevPreset"
  /\ ~m_settingsUseOwnshader
  /\ obs.launched = <<PresetCount - 1>>
  /\ m_currentPreset = PresetCount - 1
  /\ settings.lastpresetidx = PresetCount - 1

====
